---- MODULE Spec2Model ----
(***************************************************************************)
(* Model of Server/UDPServer.py: the UDP report listener (receive_loop),  *)
(* its per-domain failure timers, and the public address monitor          *)
(* (ip_monitor_loop).                                                      *)
(*                                                                         *)
(* Python strings are modelled as sequences of one-character strings, so  *)
(* that decode/strip/split/lower are computed and not assumed.            *)
(***************************************************************************)
EXTENDS Integers, Sequences, FiniteSets, TLC

VARIABLES
    now,                        \* the value time.time() returns
    budget,                     \* clock advances still explored
    lpc,                        \* position of the receive_loop thread
    running,                    \* self.running
    connectivity_0_start_time,  \* self.connectivity_0_start_time
    data,                       \* receive_loop local: bytes of the last datagram
    sender_ip,                  \* receive_loop local: addr[0] of the last datagram
    listener_calls,             \* external calls made for the current datagram
    streak_start,               \* observer: first clock reading of each domain's run of "0" reports
    last_read,                  \* observer: last time.time() reading of the listener
    pending_recovery,           \* observer: domains with an entry and a received non-"0" report
    server_socket,              \* self.server_socket: 1 made by __init__, 2 by restart_udp_server
    bound,                      \* the socket that holds the UDP port, 0 when none does
    rpc,                        \* position of the caller of restart_udp_server
    held,                       \* the first loop is still blocked in recvfrom on the closed socket
    loop_elapsed,               \* receive_loop local elapsed of the first loop
    loop2,                      \* the receive_loop thread started by restart_udp_server
    mpc,                        \* position of the ip_monitor_loop thread
    svc,                        \* _get_public_ip: index of the service being asked
    last_ip,                    \* ip_monitor_loop local
    current_ip,                 \* ip_monitor_loop local
    monitor_calls               \* notifier calls made in the current poll

listener_vars == <<lpc, running, connectivity_0_start_time, data, sender_ip,
                   listener_calls, streak_start, last_read, pending_recovery>>
socket_vars == <<server_socket, bound>>
restart_vars == <<rpc, held, loop_elapsed, loop2>>
monitor_vars == <<mpc, svc, last_ip, current_ip, monitor_calls>>
clock_vars == <<now, budget>>
vars == <<now, budget, lpc, running, connectivity_0_start_time, data, sender_ip,
          listener_calls, streak_start, last_read, pending_recovery, server_socket,
          bound, rpc, held, loop_elapsed, loop2, mpc, svc, last_ip, current_ip,
          monitor_calls>>

(***************************************************************************)
(* Bounds of the exploration.                                              *)
(***************************************************************************)
MaxTicks == 2
MaxTicksFull == 1

(***************************************************************************)
(* Program constants.                                                      *)
(***************************************************************************)
THRESHOLD == 300
NumServices == 4

None == <<"<None>">>
Deltas == {1, 299, 300}

(***************************************************************************)
(* String functions.                                                       *)
(***************************************************************************)
Whitespace == {" ", "\n"}
InvalidByte == "#"

\* bytes.decode("utf-8") raises on a byte sequence that is not UTF-8
Decodable(bytes) == \A i \in 1..Len(bytes) : bytes[i] /= InvalidByte

RECURSIVE LStrip(_)
LStrip(s) == IF s /= <<>> /\ Head(s) \in Whitespace THEN LStrip(Tail(s)) ELSE s

RECURSIVE RStrip(_)
RStrip(s) ==
    IF s /= <<>> /\ s[Len(s)] \in Whitespace THEN RStrip(SubSeq(s, 1, Len(s) - 1)) ELSE s

Strip(s) == RStrip(LStrip(s))

RECURSIVE SplitFrom(_, _, _, _)
SplitFrom(s, i, field, acc) ==
    IF i > Len(s) THEN Append(acc, field)
    ELSE IF s[i] = "," THEN SplitFrom(s, i + 1, <<>>, Append(acc, field))
    ELSE SplitFrom(s, i + 1, Append(field, s[i]), acc)

RECURSIVE SplitLooseFrom(_, _, _, _)
SplitLooseFrom(s, i, field, acc) ==
    IF i > Len(s) THEN Append(acc, field)
    ELSE IF s[i] \in {",", " "} THEN SplitLooseFrom(s, i + 1, <<>>, Append(acc, field))
    ELSE SplitLooseFrom(s, i + 1, Append(field, s[i]), acc)

SplitLoose(s) == SplitLooseFrom(s, 1, <<>>, <<>>)

\* str.split(",")
Split(s) == SplitFrom(s, 1, <<>>, <<>>)

LowerChar(c) ==
    CASE c = "V" -> "v"
      [] OTHER -> c

\* str.lower()
Lower(s) == [i \in 1..Len(s) |-> LowerChar(s[i])]

\* msg = data.decode("utf-8").strip().split(",")
ParseMsg(bytes) == Split(Strip(bytes))

(***************************************************************************)
(* Dictionary operations.                                                  *)
(***************************************************************************)
EmptyDict == [k \in {} |-> 0]
DictSet(d, k, v) == [x \in (DOMAIN d) \cup {k} |-> IF x = k THEN v ELSE d[x]]
DictDel(d, k) == [x \in (DOMAIN d) \ {k} |-> d[x]]

(***************************************************************************)
(* Inputs.                                                                 *)
(***************************************************************************)
RECURSIVE JoinFrom(_, _)
JoinFrom(fields, i) ==
    IF i > Len(fields) THEN <<>>
    ELSE IF i = Len(fields) THEN fields[i]
    ELSE fields[i] \o <<",">> \o JoinFrom(fields, i + 1)

Join(fields) == JoinFrom(fields, 1)

Domains == {<<"a">>, <<"b">>}
Flags == {<<"0">>, <<"1">>, <<"0", "0">>}
ReportedAddr == <<"8">>

\* domain,v4,reported_address,flag
Reports == {Join(<<d, <<"v", "4">>, ReportedAddr, f>>) : d \in Domains, f \in Flags}

OtherProtocolReports ==
    { Join(<<<<"a">>, <<"V", "4">>, ReportedAddr, <<"0">>>>),   \* upper case
      Join(<<<<"a">>, <<"v", "6">>, ReportedAddr, <<"0">>>>),
      Join(<<<<"b">>, <<"V", "6">>, ReportedAddr, <<"1">>>>),
      Join(<<<<"a">>, <<"x">>, ReportedAddr, <<"0">>>>),        \* unknown protocol
      Join(<<<<"a">>, <<>>, ReportedAddr, <<"0">>>>) }          \* empty protocol

OddPayloads ==
    { <<>>,                                                     \* empty datagram
      <<"a", ",", "v", "4", ",", "8">>,                         \* 3 fields
      <<"a", ",", "v", "4", ",", "8", " ", "0">>,               \* 3 fields, a blank inside
      <<"a", ",", "v", "4", ",", "8", ",", "0", "\n">>,         \* trailing newline
      <<"a", ",", "v", "4", ",", "8", ",", " ", "0">>,          \* flag " 0"
      <<"a", ",", "v", "4", ",", "8", ",", "0", ",", "z">>,     \* 5 fields
      <<"a", ",", "v", "4", ",", "8", ",", "#">> }              \* undecodable byte

Payloads == Reports \cup OtherProtocolReports \cup OddPayloads

CorePayloads ==
    { Join(<<<<"a">>, <<"v", "4">>, ReportedAddr, <<"0">>>>),
      Join(<<<<"a">>, <<"v", "4">>, ReportedAddr, <<"1">>>>),
      Join(<<<<"a">>, <<"v", "6">>, ReportedAddr, <<"0">>>>),
      <<"a", ",", "v", "4", ",", "8">>,
      <<"a", ",", "v", "4", ",", "8", ",", "#">> }

Senders == {<<"7">>}

(***************************************************************************)
(* receive_loop: the fields of a message and the decisions on them.        *)
(***************************************************************************)
\* if len(msg) >= 4
WellFormed(m) == Len(m) >= 4

domain_name(m) == m[1]
protocol(m) == Lower(m[2])
reported_ip(m) == m[3]
connectivity(m) == m[4]

IsPrimaryOrV6(p) == p \in {<<"v", "4">>, <<"v", "6">>}

\* if protocol == "v4"
IsPrimary(p) == p = <<"v", "4">>

\* if connectivity == "0"
IsFailure(c) == c = <<"0">>

ThresholdReachedEarly(elapsed) == elapsed >= THRESHOLD - 1

ThresholdReachedLate(elapsed) == elapsed > THRESHOLD

\* if elapsed >= 300
ThresholdReached(elapsed) == elapsed >= THRESHOLD

\* payload = {"client_ip": ..., "connectivity": ..., "domain_name": ...}
LambdaPayload(client_ip, conn, domain) ==
    [client_ip |-> client_ip, connectivity |-> conn, domain_name |-> domain]

ReportCallReported(sender, m) == LambdaPayload(reported_ip(m), connectivity(m), domain_name(m))

\* self.update_client_ip_via_lambda(sender_ip, connectivity, domain_name=domain_name)
ReportCall(sender, m) == LambdaPayload(sender, connectivity(m), domain_name(m))

KeepEntry(d, k) == d

ClearAllEntries(d, k) == EmptyDict

\* del self.connectivity_0_start_time[domain_name], when present
ClearEntry(d, k) == DictDel(d, k)

RemoveOnReset(d, k, t) == DictDel(d, k)

\* line 157: self.connectivity_0_start_time[domain_name] = time.time()
ResetEntry(d, k, t) == DictSet(d, k, t)

NoCalls ==
    [received |-> FALSE, lambda |-> <<>>, lambda_outcome |-> "none", had_entry |-> FALSE,
     replace |-> 0, replace_outcome |-> "none"]

LambdaOutcomes == {"ok", "error", "timeout"}
ReplaceOutcomes == {"ok", "raised"}

lambda_raises_uncaught(outcome) == outcome /= "ok"

\* update_client_ip_via_lambda, lines 95-100: every Exception of the call is caught
lambda_raises(outcome) == FALSE

replace_raises_uncaught(outcome) == outcome /= "ok"

\* replace_instance_ip, lines 89-92: every Exception of replace_ip is caught
replace_raises(outcome) == FALSE

\* the message of every datagram explored, as ParseMsg gives it
Messages == [bytes \in Payloads \cup CorePayloads \cup {None} |-> ParseMsg(bytes)]

msg == Messages[data]

on_bind_failure_continue == "recv"

\* line 124: return
on_bind_failure == "returned"

on_iteration_error_return == "returned"

\* lines 170-172: except Exception, log, time.sleep(1), then the while condition again
on_iteration_error == "pause"

(***************************************************************************)
(* receive_loop, one action per blocking point.                            *)
(***************************************************************************)
\* lines 117-121: the map is created empty, bind succeeds
BindOk ==
    /\ lpc = "start"
    /\ bound = 0
    /\ connectivity_0_start_time' = EmptyDict
    /\ streak_start' = EmptyDict
    /\ pending_recovery' = {}
    /\ bound' = server_socket
    /\ lpc' = "recv"
    /\ UNCHANGED <<running, data, sender_ip, listener_calls, last_read, server_socket>>
    /\ UNCHANGED <<clock_vars, monitor_vars, restart_vars>>

\* lines 117-124: bind raises, the loop returns
BindFail ==
    /\ lpc = "start"
    /\ connectivity_0_start_time' = EmptyDict
    /\ streak_start' = EmptyDict
    /\ pending_recovery' = {}
    /\ lpc' = on_bind_failure
    /\ UNCHANGED <<running, data, sender_ip, listener_calls, last_read>>
    /\ UNCHANGED <<clock_vars, monitor_vars, socket_vars, restart_vars>>

\* lines 128-142 and 163-172: recvfrom has returned a datagram; it is decoded, split
\* and dispatched up to the first blocking call
Received(bytes, addr) ==
    /\ data' = bytes
    /\ sender_ip' = addr
    /\ pending_recovery' =
          IF connectivity_0_start_time = EmptyDict \/ ~Decodable(bytes)
          THEN pending_recovery
          ELSE LET m == Messages[bytes] IN
               IF /\ Len(m) >= 4
                  /\ m[1] \in DOMAIN connectivity_0_start_time
                  /\ m[4] /= <<"0">>
                  /\ Lower(m[2]) = <<"v", "4">>
               THEN pending_recovery \cup {m[1]}
               ELSE pending_recovery
    /\ IF ~Decodable(bytes)
       THEN /\ lpc' = on_iteration_error
            /\ listener_calls' = [NoCalls EXCEPT !.received = TRUE]
       ELSE LET m == Messages[bytes] IN
            IF WellFormed(m) /\ IsPrimary(protocol(m))
            THEN /\ lpc' = "lambda"
                 /\ listener_calls' = [NoCalls EXCEPT !.received = TRUE,
                                                      !.lambda = <<ReportCall(addr, m)>>]
            ELSE /\ lpc' = "recv"
                 /\ listener_calls' = [NoCalls EXCEPT !.received = TRUE]
    /\ UNCHANGED <<running, connectivity_0_start_time, streak_start, last_read>>
    /\ UNCHANGED <<clock_vars, monitor_vars>>

\* lines 126-128: the while condition holds and recvfrom on self.server_socket, which
\* holds the port, returns a datagram
Recv(bytes, addr) ==
    /\ lpc = "recv"
    /\ running
    /\ ~held
    /\ bound = server_socket
    /\ Received(bytes, addr)
    /\ UNCHANGED <<socket_vars, restart_vars>>

\* lines 128, 170-172: recvfrom raises
RecvError ==
    /\ lpc = "recv"
    /\ running
    /\ ~held
    /\ lpc' = on_iteration_error
    /\ listener_calls' = NoCalls
    /\ UNCHANGED <<running, data, sender_ip, connectivity_0_start_time, streak_start, last_read,
                   pending_recovery>>
    /\ UNCHANGED <<clock_vars, monitor_vars, socket_vars, restart_vars>>

\* line 172: time.sleep(1) returns
PauseDone ==
    /\ lpc = "pause"
    /\ lpc' = "recv"
    /\ UNCHANGED <<running, data, sender_ip, listener_calls, connectivity_0_start_time,
                   streak_start, last_read, pending_recovery>>
    /\ UNCHANGED <<clock_vars, monitor_vars, socket_vars, restart_vars>>

\* lines 142-161: update_client_ip_via_lambda returns, then the failure timer of the
\* domain is updated up to the call of replace_instance_ip
LambdaReturn(outcome) ==
    /\ lpc = "lambda"
    /\ LET d == domain_name(msg)
           map == connectivity_0_start_time
           returned == [listener_calls EXCEPT !.lambda_outcome = outcome,
                                              !.had_entry = d \in DOMAIN map]
       IN  IF lambda_raises(outcome)
           THEN /\ lpc' = on_iteration_error
                /\ listener_calls' = [listener_calls EXCEPT !.lambda_outcome = outcome]
                /\ UNCHANGED <<connectivity_0_start_time, streak_start, last_read>>
           ELSE IF IsFailure(connectivity(msg))
           THEN /\ last_read' = now
                /\ streak_start' = IF d \in DOMAIN streak_start THEN streak_start
                                   ELSE DictSet(streak_start, d, now)
                /\ IF d \notin DOMAIN map
                   THEN /\ connectivity_0_start_time' = DictSet(map, d, now)
                        /\ lpc' = "recv"
                        /\ listener_calls' = returned
                   ELSE /\ connectivity_0_start_time' = map
                        /\ IF ThresholdReached(now - map[d])
                           THEN /\ lpc' = "replace"
                                /\ listener_calls' = [returned EXCEPT !.replace = @ + 1]
                           ELSE /\ lpc' = "recv"
                                /\ listener_calls' = returned
           ELSE /\ connectivity_0_start_time' = ClearEntry(map, d)
                /\ streak_start' = DictDel(streak_start, d)
                /\ lpc' = "recv"
                /\ listener_calls' = returned
                /\ UNCHANGED last_read
    /\ pending_recovery' = pending_recovery \cap DOMAIN connectivity_0_start_time'
    /\ UNCHANGED <<running, data, sender_ip>>
    /\ UNCHANGED <<clock_vars, monitor_vars, socket_vars, restart_vars>>

\* lines 153-157: replace_instance_ip returns, then the start time of the domain is
\* set to time.time()
ReplaceReturn(outcome) ==
    /\ lpc = "replace"
    /\ listener_calls' = [listener_calls EXCEPT !.replace_outcome = outcome]
    /\ IF replace_raises(outcome)
       THEN /\ lpc' = on_iteration_error
            /\ UNCHANGED <<connectivity_0_start_time, last_read>>
       ELSE /\ connectivity_0_start_time' =
                    ResetEntry(connectivity_0_start_time, domain_name(msg), now)
            /\ last_read' = now
            /\ lpc' = "recv"
    /\ UNCHANGED <<running, data, sender_ip, streak_start, pending_recovery>>
    /\ UNCHANGED <<clock_vars, monitor_vars, socket_vars, restart_vars>>

\* the clock advances
Tick(delta) ==
    /\ budget > 0
    /\ now' = now + delta
    /\ budget' = budget - 1
    /\ UNCHANGED <<listener_vars, monitor_vars, socket_vars, restart_vars>>

InitListenerVars ==
    /\ lpc = "start"
    /\ running = TRUE
    /\ connectivity_0_start_time = EmptyDict
    /\ data = None
    /\ sender_ip = None
    /\ listener_calls = NoCalls
    /\ streak_start = EmptyDict
    /\ last_read = -1
    /\ pending_recovery = {}

\* __init__ line 14 makes the socket; restart_udp_server has not been called
InitRestartVars ==
    /\ server_socket = 1
    /\ bound = 0
    /\ rpc = "idle"
    /\ held = FALSE
    /\ loop_elapsed = 0
    /\ loop2 = [pc |-> "none", data |-> None, sender_ip |-> None]

InitMonitorVars ==
    /\ mpc = "lookup"
    /\ svc = 1
    /\ last_ip = None
    /\ current_ip = None
    /\ monitor_calls = [lambda |-> <<>>, lambda_outcome |-> "none"]

(***************************************************************************)
(* The public address lookup: get_ipv4 and what it calls.                  *)
(***************************************************************************)
\* what one service answers: None (the request raised, or an error status) or the body
Responses == {None, <<>>, <<"9", "\n">>, <<"5">>}
CoreResponses == {None, <<"9", "\n">>}

\* what the local socket gives: None (it raised) or the address of the interface
LocalResults == {None, <<"1">>, <<"2">>}

Sentinel == <<"0", ".", "0", ".", "0", ".", "0">>
SERVER_DOMAIN_NAME == <<"h">>
Reachable == <<"1">>

\* Python truth of an optional string
Truthy(x) == x /= None /\ x /= <<>>

\* _request_ip: the stripped body when it is not empty, else None
request_ip(resp) ==
    IF resp = None THEN None
    ELSE LET ip == Strip(resp) IN IF ip /= <<>> THEN ip ELSE None

\* get_local_ipv4: the address of the interface, "0.0.0.0" when the socket raised
get_local_ipv4(result) == IF result = None THEN Sentinel ELSE result

ChangedOnFirstOnly(last, current) == last = None

\* if last_ip is None or current_ip != last_ip
Changed(last, current) == last = None \/ current /= last

\* self.update_client_ip_via_lambda(current_ip, "1", domain_name=os.environ.get(...))
MonitorCall(ip) == LambdaPayload(ip, Reachable, SERVER_DOMAIN_NAME)

NoMonitorCalls == [lambda |-> <<>>, lambda_outcome |-> "none"]

\* lines 184-193: get_ipv4 returned ip; compare with last_ip up to the notifier call
Resolved(ip) ==
    /\ current_ip' = ip
    /\ IF Truthy(ip) /\ Changed(last_ip, ip)
       THEN /\ mpc' = "lambda"
            /\ monitor_calls' = [monitor_calls EXCEPT !.lambda = Append(@, MonitorCall(ip))]
       ELSE /\ mpc' = "sleep"
            /\ UNCHANGED monitor_calls
    /\ UNCHANGED last_ip

\* lines 46-51, 35-44: the service asked answers
RequestIp(resp) ==
    /\ mpc = "lookup"
    /\ LET ip == request_ip(resp) IN
       IF Truthy(ip)
       THEN Resolved(ip) /\ UNCHANGED svc
       ELSE IF svc < NumServices
            THEN svc' = svc + 1 /\ UNCHANGED <<mpc, last_ip, current_ip, monitor_calls>>
            ELSE mpc' = "local" /\ UNCHANGED <<svc, last_ip, current_ip, monitor_calls>>
    /\ UNCHANGED <<clock_vars, listener_vars, socket_vars, restart_vars>>

\* lines 82, 59-68: every service failed, the local address is taken
LocalIpv4(result) ==
    /\ mpc = "local"
    /\ Resolved(get_local_ipv4(result))
    /\ UNCHANGED svc
    /\ UNCHANGED <<clock_vars, listener_vars, socket_vars, restart_vars>>

MonitorLambdaReturnShared(outcome) ==
    /\ mpc = "lambda"
    /\ monitor_calls' = [monitor_calls EXCEPT !.lambda_outcome = outcome]
    /\ mpc' = "sleep"
    /\ last_ip' = current_ip
    /\ connectivity_0_start_time' = EmptyDict
    /\ UNCHANGED <<svc, current_ip>>
    /\ UNCHANGED <<lpc, running, data, sender_ip, listener_calls, streak_start, last_read,
                   pending_recovery>>
    /\ UNCHANGED <<clock_vars, socket_vars, restart_vars>>

\* lines 193-194: update_client_ip_via_lambda returns (it catches every error)
MonitorLambdaReturn(outcome) ==
    /\ mpc = "lambda"
    /\ monitor_calls' = [monitor_calls EXCEPT !.lambda_outcome = outcome]
    /\ IF lambda_raises(outcome)
       THEN mpc' = "raised" /\ UNCHANGED last_ip
       ELSE mpc' = "sleep" /\ last_ip' = current_ip
    /\ UNCHANGED <<svc, current_ip>>
    /\ UNCHANGED <<clock_vars, listener_vars, socket_vars, restart_vars>>

\* line 195: time.sleep(60) returns, the next poll starts
SleepDone ==
    /\ mpc = "sleep"
    /\ mpc' = "lookup"
    /\ svc' = 1
    /\ monitor_calls' = NoMonitorCalls
    /\ UNCHANGED <<last_ip, current_ip>>
    /\ UNCHANGED <<clock_vars, listener_vars, socket_vars, restart_vars>>

(***************************************************************************)
(* Specifications.                                                         *)
(***************************************************************************)
ListenerStep(payloads) ==
    \/ BindOk
    \/ BindFail
    \/ \E bytes \in payloads, addr \in Senders : Recv(bytes, addr)
    \/ RecvError
    \/ PauseDone
    \/ \E outcome \in LambdaOutcomes : LambdaReturn(outcome)
    \/ \E outcome \in ReplaceOutcomes : ReplaceReturn(outcome)

MonitorStep(responses) ==
    \/ \E resp \in responses : RequestIp(resp)
    \/ \E result \in LocalResults : LocalIpv4(result)
    \/ \E outcome \in LambdaOutcomes : MonitorLambdaReturn(outcome)
    \/ SleepDone

ClockStep(deltas) == \E delta \in deltas : Tick(delta)

\* the receive_loop thread alone, with the clock
InitListener == now = 0 /\ budget = MaxTicks /\ InitListenerVars /\ InitRestartVars /\ InitMonitorVars
NextListener == ListenerStep(Payloads) \/ ClockStep(Deltas)
SpecListener == InitListener /\ [][NextListener]_vars

\* the ip_monitor_loop thread alone
InitMonitor == now = 0 /\ budget = 0 /\ InitListenerVars /\ InitRestartVars /\ InitMonitorVars
NextMonitor == MonitorStep(Responses)
SpecMonitor == InitMonitor /\ [][NextMonitor]_vars

\* both threads, as UDPServer.start() runs them, on the core inputs
Init == now = 0 /\ budget = MaxTicksFull /\ InitListenerVars /\ InitRestartVars /\ InitMonitorVars
Next == ListenerStep(CorePayloads) \/ MonitorStep(CoreResponses) \/ ClockStep({THRESHOLD})
Spec == Init /\ [][Next]_vars

(***************************************************************************)
(* restart_udp_server, called once from another thread, and the second     *)
(* receive_loop thread it starts.  With two threads on the map, the timer  *)
(* code of the first loop is taken in two steps: the read of the entry     *)
(* (line 150) and the test of the local elapsed (line 151).                *)
(***************************************************************************)
RestartPayloads ==
    { Join(<<<<"a">>, <<"v", "4">>, ReportedAddr, <<"0">>>>),
      Join(<<<<"a">>, <<"v", "4">>, ReportedAddr, <<"1">>>>) }

\* what socket.close() does to a recvfrom of another thread that is blocked on the
\* socket: the call raises, or it stays blocked on the socket, which keeps the port
\* until the call returns (close(2) on Linux)
CloseOutcomes == {"raises", "blocked"}

Live(pc) == pc \in {"recv", "lambda", "check", "replace", "pause"}

\* lines 103-108: self.running = False; self.server_socket.close()
RestartClose(outcome) ==
    /\ rpc = "idle"
    /\ Live(lpc)
    /\ running' = FALSE
    /\ rpc' = "sleep"
    /\ IF lpc = "recv" /\ outcome = "blocked"
       THEN /\ held' = TRUE
            /\ UNCHANGED <<bound, lpc, listener_calls>>
       ELSE /\ held' = FALSE
            /\ bound' = 0
            /\ IF lpc = "recv"
               THEN lpc' = on_iteration_error /\ listener_calls' = NoCalls
               ELSE UNCHANGED <<lpc, listener_calls>>
    /\ UNCHANGED <<connectivity_0_start_time, data, sender_ip, streak_start, last_read,
                   pending_recovery, server_socket, loop_elapsed, loop2>>
    /\ UNCHANGED <<clock_vars, monitor_vars>>

\* lines 109-112: time.sleep(2) returns, a new socket is made, self.running = True,
\* start_receive_thread().  The two seconds outlast the time.sleep(1) of the first loop
\* and its steps that wait for nothing, so by then the first loop has returned or is
\* inside recvfrom, the notifier call or replace_instance_ip.
RestartReopen ==
    /\ rpc = "sleep"
    /\ held \/ lpc \in {"lambda", "replace", "returned"}
    /\ server_socket' = 2
    /\ running' = TRUE
    /\ loop2' = [loop2 EXCEPT !.pc = "start"]
    /\ rpc' = "done"
    /\ UNCHANGED <<lpc, connectivity_0_start_time, data, sender_ip, listener_calls,
                   streak_start, last_read, pending_recovery, bound, held, loop_elapsed>>
    /\ UNCHANGED <<clock_vars, monitor_vars>>

\* line 126: the while condition is false, receive_loop returns
LoopExit ==
    /\ lpc = "recv"
    /\ ~running
    /\ ~held
    /\ lpc' = "returned"
    /\ UNCHANGED <<running, connectivity_0_start_time, data, sender_ip, listener_calls,
                   streak_start, last_read, pending_recovery>>
    /\ UNCHANGED <<clock_vars, monitor_vars, socket_vars, restart_vars>>

\* line 128: the recvfrom that stayed blocked on the closed socket returns a datagram;
\* the socket then lets go of the port
RecvHeld(bytes, addr) ==
    /\ lpc = "recv"
    /\ held
    /\ Received(bytes, addr)
    /\ held' = FALSE
    /\ bound' = 0
    /\ UNCHANGED <<server_socket, rpc, loop_elapsed, loop2>>

\* lines 142-150: update_client_ip_via_lambda returns, then the entry of the domain is
\* created, deleted, or read into elapsed
LambdaReturnRead(outcome) ==
    /\ lpc = "lambda"
    /\ LET d == domain_name(msg)
           map == connectivity_0_start_time
       IN  /\ listener_calls' = [listener_calls EXCEPT !.lambda_outcome = outcome,
                                                       !.had_entry = d \in DOMAIN map]
           /\ IF lambda_raises(outcome)
              THEN /\ lpc' = on_iteration_error
                   /\ UNCHANGED <<connectivity_0_start_time, streak_start, last_read,
                                  loop_elapsed>>
              ELSE IF IsFailure(connectivity(msg))
              THEN /\ last_read' = now
                   /\ streak_start' = IF d \in DOMAIN streak_start THEN streak_start
                                      ELSE DictSet(streak_start, d, now)
                   /\ IF d \notin DOMAIN map
                      THEN /\ connectivity_0_start_time' = DictSet(map, d, now)
                           /\ lpc' = "recv"
                           /\ UNCHANGED loop_elapsed
                      ELSE /\ connectivity_0_start_time' = map
                           /\ loop_elapsed' = now - map[d]
                           /\ lpc' = "check"
              ELSE /\ connectivity_0_start_time' = ClearEntry(map, d)
                   /\ streak_start' = DictDel(streak_start, d)
                   /\ lpc' = "recv"
                   /\ UNCHANGED <<last_read, loop_elapsed>>
    /\ pending_recovery' = pending_recovery \cap DOMAIN connectivity_0_start_time'
    /\ UNCHANGED <<running, data, sender_ip, rpc, held, loop2>>
    /\ UNCHANGED <<clock_vars, monitor_vars, socket_vars>>

\* lines 151-153: if elapsed >= 300, replace_instance_ip is called
ThresholdCheck ==
    /\ lpc = "check"
    /\ IF ThresholdReached(loop_elapsed)
       THEN /\ lpc' = "replace"
            /\ listener_calls' = [listener_calls EXCEPT !.replace = @ + 1]
       ELSE /\ lpc' = "recv"
            /\ UNCHANGED listener_calls
    /\ UNCHANGED <<running, connectivity_0_start_time, data, sender_ip, streak_start,
                   last_read, pending_recovery>>
    /\ UNCHANGED <<clock_vars, monitor_vars, socket_vars, restart_vars>>

msg2 == Messages[loop2.data]

\* lines 117-121 in the second thread: the map is replaced by an empty one, the new
\* socket binds the port
NewLoopBindOk ==
    /\ loop2.pc = "start"
    /\ bound = 0
    /\ connectivity_0_start_time' = EmptyDict
    /\ streak_start' = EmptyDict
    /\ pending_recovery' = {}
    /\ bound' = server_socket
    /\ loop2' = [loop2 EXCEPT !.pc = "recv"]
    /\ UNCHANGED <<lpc, running, data, sender_ip, listener_calls, last_read, server_socket,
                   rpc, held, loop_elapsed>>
    /\ UNCHANGED <<clock_vars, monitor_vars>>

\* lines 117-124 in the second thread: the closed socket still holds the port, bind
\* raises and the thread returns
NewLoopBindFail ==
    /\ loop2.pc = "start"
    /\ bound /= 0
    /\ connectivity_0_start_time' = EmptyDict
    /\ streak_start' = EmptyDict
    /\ pending_recovery' = {}
    /\ loop2' = [loop2 EXCEPT !.pc = on_bind_failure]
    /\ UNCHANGED <<lpc, running, data, sender_ip, listener_calls, last_read, rpc, held,
                   loop_elapsed>>
    /\ UNCHANGED <<clock_vars, monitor_vars, socket_vars>>

\* lines 126-142 and 163-172 in the second thread
NewLoopRecv(bytes, addr) ==
    /\ loop2.pc = "recv"
    /\ running
    /\ bound = server_socket
    /\ loop2' = [pc |-> IF ~Decodable(bytes) THEN on_iteration_error
                        ELSE IF WellFormed(Messages[bytes])
                                  /\ IsPrimary(protocol(Messages[bytes]))
                             THEN "lambda" ELSE "recv",
                 data |-> bytes, sender_ip |-> addr]
    /\ UNCHANGED <<rpc, held, loop_elapsed>>
    /\ UNCHANGED <<listener_vars, clock_vars, monitor_vars, socket_vars>>

\* lines 128, 170-172 in the second thread
NewLoopRecvError ==
    /\ loop2.pc = "recv"
    /\ running
    /\ loop2' = [loop2 EXCEPT !.pc = on_iteration_error]
    /\ UNCHANGED <<rpc, held, loop_elapsed>>
    /\ UNCHANGED <<listener_vars, clock_vars, monitor_vars, socket_vars>>

\* line 172 in the second thread
NewLoopPauseDone ==
    /\ loop2.pc = "pause"
    /\ loop2' = [loop2 EXCEPT !.pc = "recv"]
    /\ UNCHANGED <<rpc, held, loop_elapsed>>
    /\ UNCHANGED <<listener_vars, clock_vars, monitor_vars, socket_vars>>

\* lines 142-161 in the second thread
NewLoopLambdaReturn(outcome) ==
    /\ loop2.pc = "lambda"
    /\ LET d == domain_name(msg2)
           map == connectivity_0_start_time
       IN  IF lambda_raises(outcome)
           THEN /\ loop2' = [loop2 EXCEPT !.pc = on_iteration_error]
                /\ UNCHANGED <<connectivity_0_start_time, streak_start>>
           ELSE IF IsFailure(connectivity(msg2))
           THEN /\ streak_start' = IF d \in DOMAIN streak_start THEN streak_start
                                   ELSE DictSet(streak_start, d, now)
                /\ IF d \notin DOMAIN map
                   THEN /\ connectivity_0_start_time' = DictSet(map, d, now)
                        /\ loop2' = [loop2 EXCEPT !.pc = "recv"]
                   ELSE /\ connectivity_0_start_time' = map
                        /\ loop2' = [loop2 EXCEPT !.pc =
                                        IF ThresholdReached(now - map[d]) THEN "replace"
                                        ELSE "recv"]
           ELSE /\ connectivity_0_start_time' = ClearEntry(map, d)
                /\ streak_start' = DictDel(streak_start, d)
                /\ loop2' = [loop2 EXCEPT !.pc = "recv"]
    /\ pending_recovery' = pending_recovery \cap DOMAIN connectivity_0_start_time'
    /\ UNCHANGED <<lpc, running, data, sender_ip, listener_calls, last_read, rpc, held,
                   loop_elapsed>>
    /\ UNCHANGED <<clock_vars, monitor_vars, socket_vars>>

\* lines 153-157 in the second thread
NewLoopReplaceReturn(outcome) ==
    /\ loop2.pc = "replace"
    /\ IF replace_raises(outcome)
       THEN /\ loop2' = [loop2 EXCEPT !.pc = on_iteration_error]
            /\ UNCHANGED connectivity_0_start_time
       ELSE /\ connectivity_0_start_time' =
                    ResetEntry(connectivity_0_start_time, domain_name(msg2), now)
            /\ loop2' = [loop2 EXCEPT !.pc = "recv"]
    /\ UNCHANGED <<lpc, running, data, sender_ip, listener_calls, streak_start, last_read,
                   pending_recovery, rpc, held, loop_elapsed>>
    /\ UNCHANGED <<clock_vars, monitor_vars, socket_vars>>

FirstLoopStep(payloads) ==
    \/ BindOk
    \/ BindFail
    \/ \E bytes \in payloads, addr \in Senders : Recv(bytes, addr)
    \/ \E bytes \in payloads, addr \in Senders : RecvHeld(bytes, addr)
    \/ RecvError
    \/ PauseDone
    \/ \E outcome \in LambdaOutcomes : LambdaReturnRead(outcome)
    \/ ThresholdCheck
    \/ \E outcome \in ReplaceOutcomes : ReplaceReturn(outcome)
    \/ LoopExit

NewLoopStep(payloads) ==
    \/ NewLoopBindOk
    \/ NewLoopBindFail
    \/ \E bytes \in payloads, addr \in Senders : NewLoopRecv(bytes, addr)
    \/ NewLoopRecvError
    \/ NewLoopPauseDone
    \/ \E outcome \in LambdaOutcomes : NewLoopLambdaReturn(outcome)
    \/ \E outcome \in ReplaceOutcomes : NewLoopReplaceReturn(outcome)

RestartStep ==
    \/ \E outcome \in CloseOutcomes : RestartClose(outcome)
    \/ RestartReopen

\* the receive_loop threads and one call of restart_udp_server
NextRestart ==
    \/ FirstLoopStep(RestartPayloads)
    \/ NewLoopStep(RestartPayloads)
    \/ RestartStep
    \/ ClockStep({THRESHOLD})
SpecRestart == Init /\ [][NextRestart]_vars

(***************************************************************************)
(* time.time() is the system clock: it can be set back while the program   *)
(* runs.                                                                   *)
(***************************************************************************)
SetBacks == {200}

\* the system clock is set back by delta seconds
SetBack(delta) ==
    /\ budget > 0
    /\ now >= delta
    /\ now' = now - delta
    /\ budget' = budget - 1
    /\ UNCHANGED <<listener_vars, monitor_vars, socket_vars, restart_vars>>

\* the receive_loop thread alone, with a clock that can be set back
NextWallClock ==
    \/ ListenerStep(CorePayloads)
    \/ ClockStep(Deltas)
    \/ \E delta \in SetBacks : SetBack(delta)
SpecWallClock == InitListener /\ [][NextWallClock]_vars

(***************************************************************************)
(* Claims.  The formulas spell the strings and the threshold arithmetic    *)
(* out on the state; they do not use the operators of receive_loop.        *)
(***************************************************************************)
Zero == <<"0">>
V4 == <<"v", "4">>

\* number of comma separated fields of a payload
FieldCount(bytes) == 1 + Cardinality({i \in 1..Len(bytes) : bytes[i] = ","})

\* the report being handled is a well-formed primary report
HandlingPrimary == Decodable(data) /\ Len(msg) >= 4 /\ Lower(msg[2]) = V4

\* a step in which the listener's notifier call returns and the timer code runs
TrackerStep == lpc = "lambda" /\ lpc' /= "lambda"

\* a step in which replace_instance_ip is invoked
RemediationStep == listener_calls'.replace > listener_calls.replace

\* the handling of a primary report is complete
HandledPrimary ==
    /\ lpc = "recv"
    /\ listener_calls.received
    /\ listener_calls.lambda_outcome /= "none"
    /\ HandlingPrimary

\* C1 (debounce): replace_instance_ip is invoked for a report of domain D only when
\* the clock readings of D's current run of "0" reports (its first one up to the
\* reading of this report) span at least 300 seconds; a run spanning less never
\* invokes it.
C1_Debounce ==
    [][RemediationStep =>
          /\ msg[1] \in DOMAIN streak_start'
          /\ now - streak_start'[msg[1]] >= 300]_vars

\* C1 witness: a second "0" report of a domain was handled 299 seconds after the
\* first one of its run, and nothing was replaced.
C1_Witness ==
    /\ HandledPrimary
    /\ msg[4] = Zero
    /\ listener_calls.had_entry
    /\ listener_calls.replace = 0
    /\ msg[1] \in DOMAIN streak_start
    /\ last_read - streak_start[msg[1]] = 299

\* C2 as stated: whenever a "0" report of D is handled at t1 >= t0 + 300, t0 being the
\* reading at which D's entry was created and only "0" reports of D lying between,
\* remediation is invoked.
C2_Original ==
    [][(/\ TrackerStep
        /\ msg[4] = Zero
        /\ msg[1] \in DOMAIN streak_start
        /\ now >= streak_start[msg[1]] + 300)
       => RemediationStep]_vars

\* C2 (threshold crossing, amended): when D's entry still holds the reading t0 at which
\* it was created (no "0" report of D in between was handled at or after t0 + 300) and
\* a "0" report of D is handled at t1 >= t0 + 300, remediation is invoked exactly once
\* and the start time of D is then set to the current time; a "0" report of D handled
\* no later than one second after the stored start time invokes no remediation.
C2_ThresholdCrossing ==
    [][/\ (/\ TrackerStep
           /\ msg[4] = Zero
           /\ msg[1] \in DOMAIN connectivity_0_start_time
           /\ msg[1] \in DOMAIN streak_start
           /\ connectivity_0_start_time[msg[1]] = streak_start[msg[1]]
           /\ now >= streak_start[msg[1]] + 300)
          => (/\ lpc' = "replace"
              /\ listener_calls'.replace = 1
              /\ connectivity_0_start_time' = connectivity_0_start_time)
       /\ (lpc = "replace" /\ lpc' /= "replace")
          => (/\ lpc' = "recv"
              /\ listener_calls'.replace = 1
              /\ connectivity_0_start_time' =
                    [connectivity_0_start_time EXCEPT ![msg[1]] = now])
       /\ (/\ TrackerStep
           /\ msg[4] = Zero
           /\ msg[1] \in DOMAIN connectivity_0_start_time
           /\ now <= connectivity_0_start_time[msg[1]] + 1)
          => (/\ lpc' = "recv"
              /\ listener_calls'.replace = 0
              /\ connectivity_0_start_time' = connectivity_0_start_time)]_vars

\* C2 witness: the entry of D was created at t0, reset by a remediation at t0 + 300,
\* and a further "0" report handled one second later replaced nothing.
C2_Witness ==
    /\ HandledPrimary
    /\ msg[4] = Zero
    /\ listener_calls.replace = 0
    /\ msg[1] \in DOMAIN connectivity_0_start_time
    /\ connectivity_0_start_time[msg[1]] = streak_start[msg[1]] + 300
    /\ last_read = connectivity_0_start_time[msg[1]] + 1

\* C3 (recovery clears state): handling a primary report whose flag is not exactly "0"
\* leaves D without entry and replaces nothing; a "0" report of a domain without
\* entry creates the entry with the current clock reading and replaces nothing; and
\* remediation is invoked only 300 seconds or more after the stored start time.
C3_RecoveryClears ==
    [][/\ (TrackerStep /\ msg[4] /= Zero)
          => (/\ msg[1] \notin DOMAIN connectivity_0_start_time'
              /\ \A d \in DOMAIN connectivity_0_start_time' :
                    connectivity_0_start_time'[d] = connectivity_0_start_time[d]
              /\ lpc' = "recv"
              /\ listener_calls'.replace = 0)
       /\ (TrackerStep /\ msg[4] = Zero /\ msg[1] \notin DOMAIN connectivity_0_start_time)
          => (/\ msg[1] \in DOMAIN connectivity_0_start_time'
              /\ connectivity_0_start_time'[msg[1]] = now
              /\ lpc' = "recv"
              /\ listener_calls'.replace = 0)
       /\ RemediationStep
          => (/\ msg[1] \in DOMAIN connectivity_0_start_time
              /\ now >= connectivity_0_start_time[msg[1]] + 300)]_vars

\* C3 witness: a report with flag "00" was handled for a domain that had an entry, the
\* entry is gone and nothing was replaced.
C3_Witness ==
    /\ HandledPrimary
    /\ msg[4] = <<"0", "0">>
    /\ listener_calls.had_entry
    /\ last_read >= 300
    /\ msg[1] \notin DOMAIN connectivity_0_start_time
    /\ listener_calls.replace = 0

\* C4 (protocol isolation): receiving a report of at least 4 fields whose protocol,
\* lower-cased, is not "v4" leaves the failure map unchanged and calls neither the
\* notifier nor replace_instance_ip.
C4_ProtocolIsolation ==
    [][(/\ lpc = "recv"
        /\ listener_calls'.received
        /\ Decodable(data')
        /\ Len(Messages[data']) >= 4
        /\ Lower(Messages[data'][2]) /= V4)
       => (/\ connectivity_0_start_time' = connectivity_0_start_time
           /\ listener_calls'.lambda = <<>>
           /\ listener_calls'.replace = 0
           /\ lpc' = "recv")]_vars

\* C4 witness: a "V6" report with flag "1" was received for a domain that has an entry;
\* the entry is still there and no call was made.
C4_Witness ==
    /\ lpc = "recv"
    /\ listener_calls.received
    /\ Decodable(data)
    /\ Len(msg) >= 4
    /\ Lower(msg[2]) = <<"v", "6">>
    /\ msg[4] = <<"1">>
    /\ msg[1] \in DOMAIN connectivity_0_start_time
    /\ listener_calls.lambda = <<>>

\* C5 (malformed input isolation): receiving a payload of fewer than 4 comma separated
\* fields leaves the failure map unchanged, makes no external call and leaves the
\* listener at its next receive.
C5_MalformedIsolation ==
    [][(/\ lpc = "recv"
        /\ listener_calls'.received
        /\ Decodable(data')
        /\ FieldCount(data') < 4)
       => (/\ connectivity_0_start_time' = connectivity_0_start_time
           /\ listener_calls'.lambda = <<>>
           /\ listener_calls'.replace = 0
           /\ lpc' = "recv")]_vars

\* C5 witness: a payload of 3 fields was received while a domain had an entry; no call
\* was made and the listener is back at its receive.
C5_Witness ==
    /\ lpc = "recv"
    /\ listener_calls.received
    /\ FieldCount(data) = 3
    /\ data /= None
    /\ DOMAIN connectivity_0_start_time /= {}
    /\ listener_calls.lambda = <<>>
    /\ listener_calls.replace = 0

\* a step in which get_ipv4 returns an address for this poll (not the "0.0.0.0" of a
\* failed lookup)
PollResolves ==
    /\ mpc \in {"lookup", "local"}
    /\ mpc' \in {"lambda", "sleep"}
    /\ current_ip' /= Sentinel

\* C6 (address-change debounce): a poll that resolves an address while none is stored,
\* or one different from the stored address, makes exactly one notifier call, with
\* the resolved address, flag "1" and the home domain, and the resolved address is
\* stored when the call returns; a poll that resolves the stored address makes no
\* call; the stored address changes at no other step.
C6_AddressChangeDebounce ==
    [][/\ PollResolves =>
            /\ last_ip' = last_ip
            /\ monitor_calls.lambda = <<>>
            /\ IF last_ip = None \/ current_ip' /= last_ip
               THEN /\ mpc' = "lambda"
                    /\ monitor_calls'.lambda =
                          <<[client_ip |-> current_ip', connectivity |-> <<"1">>,
                             domain_name |-> SERVER_DOMAIN_NAME]>>
               ELSE /\ mpc' = "sleep"
                    /\ monitor_calls'.lambda = <<>>
       /\ (mpc = "lambda" /\ current_ip /= Sentinel) =>
            /\ mpc' = "sleep"
            /\ last_ip' = current_ip
            /\ current_ip' = current_ip
            /\ monitor_calls'.lambda = monitor_calls.lambda
       /\ last_ip' /= last_ip => mpc = "lambda"]_vars

\* C6 witness: a later poll resolved "5" while "9" was stored, and exactly one
\* call carrying "5" was made.
C6_Witness ==
    /\ mpc = "lambda"
    /\ last_ip = <<"9">>
    /\ current_ip = <<"5">>
    /\ Len(monitor_calls.lambda) = 1
    /\ monitor_calls.lambda[1].client_ip = <<"5">>

\* C7 (lookup exhaustion) as stated: a poll in which every service and the local
\* fallback failed, so that get_ipv4 gave "0.0.0.0", makes no notifier call and does
\* not change the stored address.
C7_LookupExhaustion ==
    [][/\ (mpc = "local" /\ current_ip' = Sentinel)
          => (mpc' = "sleep" /\ monitor_calls'.lambda = <<>>)
       /\ (mpc = "lambda" /\ current_ip = Sentinel) => last_ip' = last_ip]_vars

\* C8 (notifier per primary report): receiving a well-formed "v4" report invokes the
\* notifier once, with the sender's address, the flag and the domain of the report,
\* and leaves the failure map as it was; the map changes only in steps taken after
\* that call; and when the handling is complete exactly that one call was made.
C8_NotifierPerReport ==
    [][/\ (/\ lpc = "recv"
           /\ listener_calls'.received
           /\ listener_calls'.lambda_outcome = "none"
           /\ Decodable(data')
           /\ Len(Messages[data']) >= 4
           /\ Lower(Messages[data'][2]) = V4)
          => (/\ lpc' = "lambda"
              /\ listener_calls'.lambda =
                    <<[client_ip |-> sender_ip', connectivity |-> Messages[data'][4],
                       domain_name |-> Messages[data'][1]]>>
              /\ connectivity_0_start_time' = connectivity_0_start_time)
       /\ (connectivity_0_start_time' /= connectivity_0_start_time)
          => (/\ lpc \in {"lambda", "replace"}
              /\ Len(listener_calls.lambda) = 1
              /\ listener_calls'.lambda = listener_calls.lambda)
       /\ (lpc' = "recv" /\ listener_calls'.lambda_outcome /= "none")
          => listener_calls'.lambda =
                <<[client_ip |-> sender_ip', connectivity |-> Messages[data'][4],
                   domain_name |-> Messages[data'][1]]>>]_vars

\* C8 witness: a "v4" report with flag "1" of a domain that has an entry was received
\* from sender "7" reporting address "8"; the notifier was invoked with "7" and the
\* entry is still in the map.
C8_Witness ==
    /\ lpc = "lambda"
    /\ msg[4] = <<"1">>
    /\ msg[3] = <<"8">>
    /\ sender_ip = <<"7">>
    /\ msg[1] \in DOMAIN connectivity_0_start_time
    /\ Len(listener_calls.lambda) = 1
    /\ listener_calls.lambda[1].client_ip = <<"7">>

\* C9 (notification failure is transparent): whatever the outcome of the notifier
\* call, the listener goes on to the timer code with the same result (entry removed,
\* created, kept, or remediation invoked) and the monitor stores the resolved address;
\* no step makes a second notifier call for the same event and neither loop ends.
C9_NotificationFailure ==
    [][/\ TrackerStep =>
            /\ listener_calls'.lambda = listener_calls.lambda
            /\ LET d == msg[1]
                   map == connectivity_0_start_time
               IN  IF msg[4] /= Zero
                   THEN /\ connectivity_0_start_time' = [x \in (DOMAIN map) \ {d} |-> map[x]]
                        /\ lpc' = "recv"
                   ELSE IF d \notin DOMAIN map
                   THEN /\ connectivity_0_start_time' =
                              [x \in (DOMAIN map) \cup {d} |-> IF x = d THEN now ELSE map[x]]
                        /\ lpc' = "recv"
                   ELSE /\ connectivity_0_start_time' = map
                        /\ lpc' = IF now - map[d] >= 300 THEN "replace" ELSE "recv"
                        /\ listener_calls'.replace = IF now - map[d] >= 300 THEN 1 ELSE 0
       /\ (mpc = "lambda" /\ mpc' /= "lambda") =>
            /\ mpc' = "sleep"
            /\ last_ip' = current_ip
            /\ monitor_calls'.lambda = monitor_calls.lambda]_vars

\* C9 witness: the notifier call of a "0" report ended in an error and the entry of
\* the domain was created; the notifier call of an address change timed out and the
\* address was stored.
C9_Witness ==
    /\ HandledPrimary
    /\ msg[4] = Zero
    /\ listener_calls.lambda_outcome = "error"
    /\ msg[1] \in DOMAIN connectivity_0_start_time
    /\ mpc = "sleep"
    /\ monitor_calls.lambda_outcome = "timeout"
    /\ last_ip = current_ip
    /\ last_ip = <<"9">>

\* C10 (remediation failure): when replace_instance_ip returns, with or without an
\* error of replace_ip, the entry of D is kept with the current time as start time,
\* no second call is made and the listener is back at its receive; remediation is
\* invoked only 300 seconds or more after the stored start time.
C10_RemediationFailure ==
    [][/\ (lpc = "replace" /\ lpc' /= "replace")
          => (/\ lpc' = "recv"
              /\ msg[1] \in DOMAIN connectivity_0_start_time'
              /\ connectivity_0_start_time'[msg[1]] = now
              /\ \A d \in DOMAIN connectivity_0_start_time :
                    d /= msg[1] => connectivity_0_start_time'[d] = connectivity_0_start_time[d]
              /\ listener_calls'.replace = 1)
       /\ RemediationStep
          => (/\ listener_calls.replace = 0
              /\ now - connectivity_0_start_time[msg[1]] >= 300)]_vars

\* C10 witness: replace_ip raised, and the entry of D holds the time at which
\* replace_instance_ip returned.
C10_Witness ==
    /\ lpc = "recv"
    /\ listener_calls.replace = 1
    /\ listener_calls.replace_outcome = "raised"
    /\ msg[1] \in DOMAIN connectivity_0_start_time
    /\ connectivity_0_start_time[msg[1]] = last_read
    /\ last_read >= 300

(***************************************************************************)
(* C11: repeated remediation.  While a domain keeps sending "0" reports,   *)
(* every return of a remediation leaves the domain's entry in place, set   *)
(* to the clock reading taken at that return, with the run of "0" reports  *)
(* unbroken; a "0" report processed 300 or more seconds after that reading *)
(* invokes remediation again; and a remediation invoked after an earlier   *)
(* one of the same run is at least 300 seconds after the return of the     *)
(* earlier one, which is not before the earlier one was invoked.           *)
(***************************************************************************)
RemediatedBefore ==
    /\ msg[1] \in DOMAIN connectivity_0_start_time
    /\ msg[1] \in DOMAIN streak_start
    /\ connectivity_0_start_time[msg[1]] > streak_start[msg[1]]

C11_RepeatedRemediation ==
    [][/\ (lpc = "replace" /\ lpc' /= "replace") =>
               /\ msg[1] \in DOMAIN connectivity_0_start_time'
               /\ connectivity_0_start_time'[msg[1]] = now
               /\ connectivity_0_start_time'[msg[1]] >= last_read
               /\ streak_start' = streak_start
               /\ lpc' = "recv"
       /\ (TrackerStep /\ HandlingPrimary /\ msg[4] = Zero /\ RemediatedBefore
              /\ now - connectivity_0_start_time[msg[1]] >= 300) => RemediationStep
       /\ (RemediationStep /\ RemediatedBefore) =>
               now - connectivity_0_start_time[msg[1]] >= 300]_vars

\* a second remediation of the same run is invoked, 300 seconds after the first returned
C11_Witness ==
    /\ lpc = "replace"
    /\ RemediatedBefore
    /\ connectivity_0_start_time[msg[1]] = streak_start[msg[1]] + 300
    /\ now = connectivity_0_start_time[msg[1]] + 300

(***************************************************************************)
(* C12: failure-entry invariant.  A domain that has an entry and for which *)
(* a "v4" report with a flag other than "0" was received since the entry   *)
(* was created exists only while that same report is being handled (the    *)
(* listener is at its notifier call); the handling of every received "v4"  *)
(* report runs to the timer code whatever the notifier call does, and it   *)
(* removes the entry for a flag other than "0" and leaves one for "0".     *)
(***************************************************************************)
EntryOnlyWithZeroReports ==
    \A d \in pending_recovery :
        /\ lpc = "lambda"
        /\ Decodable(data)
        /\ msg[1] = d
        /\ msg[4] /= Zero

C12_FailureEntryInvariant ==
    [][/\ EntryOnlyWithZeroReports'
       /\ (lpc = "lambda" /\ lpc' /= "lambda") =>
               /\ lpc' \in {"recv", "replace"}
               /\ listener_calls'.lambda_outcome \in {"ok", "error", "timeout"}
               /\ (msg[4] /= Zero) => msg[1] \notin DOMAIN connectivity_0_start_time'
               /\ (msg[4] = Zero) => msg[1] \in DOMAIN connectivity_0_start_time'
       /\ (lpc /= "lambda" /\ lpc' = "lambda") =>
               /\ lpc = "recv"
               /\ connectivity_0_start_time' = connectivity_0_start_time]_vars

\* the notifier call of a "v4" report with flag "1" of a domain that had an entry ended
\* in an error, and the entry is gone
C12_Witness ==
    /\ lpc = "recv"
    /\ HandlingPrimary
    /\ msg[4] = <<"1">>
    /\ listener_calls.had_entry
    /\ listener_calls.lambda_outcome = "error"
    /\ msg[1] \notin DOMAIN connectivity_0_start_time
    /\ pending_recovery = {}

(***************************************************************************)
(* C13: restart of the listener.  The step of restart_udp_server that      *)
(* closes the socket clears the running flag, frees the port, and takes a  *)
(* first loop that is blocked in its receive out of the receive; the loop  *)
(* started after the pause binds the port and is at its receive.           *)
(***************************************************************************)
C13_RestartRebinds ==
    [][/\ (rpc = "idle" /\ rpc' = "sleep") =>
               /\ ~running'
               /\ bound' = 0
               /\ (lpc = "recv") => lpc' /= "recv"
       /\ (loop2.pc = "start" /\ loop2'.pc /= "start") =>
               /\ loop2'.pc = "recv"
               /\ bound' = server_socket']_vars

(***************************************************************************)
(* C14: at most one receive loop is live.  Whenever the loop started by    *)
(* restart_udp_server is past its bind (receiving, in an external call or  *)
(* in its error pause), the first loop has returned.                       *)
(***************************************************************************)
C14_SingleLiveLoop ==
    (loop2.pc \in {"recv", "lambda", "replace", "pause"}) => lpc = "returned"

(***************************************************************************)
(* C20: restart clears the tracker.  Every step that enters a receive loop *)
(* (the first start and the start after a restart) leaves the map empty,   *)
(* and remediation is invoked only for a domain whose entry in the map, as *)
(* it is at that step, is 300 or more seconds old.                         *)
(***************************************************************************)
C20_RestartClearsTracker ==
    [][/\ ((lpc = "start" /\ lpc' /= "start") \/ (loop2.pc = "start" /\ loop2'.pc /= "start"))
            => connectivity_0_start_time' = << >>
       /\ RemediationStep =>
            /\ msg[1] \in DOMAIN connectivity_0_start_time
            /\ now - connectivity_0_start_time[msg[1]] >= 300
       /\ (loop2.pc /= "replace" /\ loop2'.pc = "replace") =>
            /\ msg2[1] \in DOMAIN connectivity_0_start_time
            /\ now - connectivity_0_start_time[msg2[1]] >= 300]_vars

(***************************************************************************)
(* C15: bind failure is fatal for that run.  When the loop leaves its      *)
(* start without the port bound it has returned; a loop that has returned  *)
(* stays returned, never binds, and has received and processed nothing     *)
(* (no datagram, no call, no entry); the address monitor is meanwhile at   *)
(* one of the positions of its loop.                                       *)
(***************************************************************************)
C15_BindFailureFatal ==
    [][/\ (lpc = "start" /\ lpc' /= "start" /\ bound' = 0) => lpc' = "returned"
       /\ (lpc = "returned") =>
               /\ lpc' = "returned"
               /\ bound' = 0
               /\ data' = <<"<None>">>
               /\ ~listener_calls'.received
               /\ listener_calls'.lambda = << >>
               /\ listener_calls'.replace = 0
               /\ connectivity_0_start_time' = << >>
               /\ mpc' \in {"lookup", "local", "lambda", "sleep"}]_vars

\* the bind failed, and the monitor has stored an address and started its next poll
C15_Witness ==
    /\ lpc = "returned"
    /\ bound = 0
    /\ last_ip = <<"9">>
    /\ mpc = "lookup"

(***************************************************************************)
(* C16: only a bind failure terminates a loop.  A receive loop that is     *)
(* past its bind stays inside the loop at every step; a receive that does  *)
(* not lead to the notifier call or back to the receive leads to the       *)
(* pause, and the pause leads back to the receive; the receive loop is     *)
(* returned only from its start; the monitor loop is always at one of the  *)
(* positions of its loop.                                                  *)
(***************************************************************************)
C16_OnlyBindFailureTerminates ==
    [][/\ (lpc \in {"recv", "lambda", "replace", "pause"}) =>
               lpc' \in {"recv", "lambda", "replace", "pause"}
       /\ (lpc = "recv" /\ lpc' \notin {"recv", "lambda"}) => lpc' = "pause"
       /\ (lpc = "pause" /\ lpc' /= "pause") => lpc' = "recv"
       /\ (lpc' = "returned") => lpc \in {"start", "returned"}
       /\ mpc' \in {"lookup", "local", "lambda", "sleep"}]_vars

\* a datagram that does not decode was received, the error was caught and the pause is
\* over: the loop is at its receive again; the notifier call of the monitor timed out
\* and the monitor sleeps
C16_Witness ==
    /\ lpc = "recv"
    /\ listener_calls.received
    /\ ~Decodable(data)
    /\ mpc = "sleep"
    /\ monitor_calls.lambda_outcome = "timeout"

(***************************************************************************)
(* C17: the two loops share no mutable state.  A step that changes a       *)
(* variable of the monitor loop changes none of the receive loop, and the  *)
(* other way round; the failure map changes only in steps of the receive   *)
(* loop and the stored address only in the notifier return of the monitor. *)
(***************************************************************************)
C17_NoSharedState ==
    [][/\ (<<mpc, svc, last_ip, current_ip, monitor_calls>>' /=
              <<mpc, svc, last_ip, current_ip, monitor_calls>>) =>
            /\ <<lpc, running, connectivity_0_start_time, data, sender_ip>>' =
                  <<lpc, running, connectivity_0_start_time, data, sender_ip>>
            /\ listener_calls' = listener_calls
       /\ (connectivity_0_start_time' /= connectivity_0_start_time) =>
            /\ lpc \in {"lambda", "replace"}
            /\ lpc' /= lpc
       /\ (last_ip' /= last_ip) =>
            /\ mpc = "lambda"
            /\ mpc' = "sleep"
            /\ lpc' = lpc]_vars

\* both loops have acted: the failure map has an entry and the listener is inside the
\* notifier call of a report, the monitor has notified an address, stored it and sleeps
C17_Witness ==
    /\ <<"a">> \in DOMAIN connectivity_0_start_time
    /\ lpc = "lambda"
    /\ last_ip = <<"9">>
    /\ mpc = "sleep"
    /\ monitor_calls.lambda_outcome = "ok"

(***************************************************************************)
(* C18: the clock of the failure timers is monotonic.  Every stored start  *)
(* time is a reading not after the current one, and the elapsed time       *)
(* computed for a "0" report of a domain that has an entry is not          *)
(* negative.                                                               *)
(***************************************************************************)
C18_MonotonicClock ==
    [][/\ \A d \in DOMAIN connectivity_0_start_time' : connectivity_0_start_time'[d] <= now'
       /\ (TrackerStep /\ HandlingPrimary /\ msg[4] = Zero
             /\ msg[1] \in DOMAIN connectivity_0_start_time) =>
               now - connectivity_0_start_time[msg[1]] >= 0]_vars

(***************************************************************************)
(* C19: per-domain independence.  A step that changes the failure map is   *)
(* the handling of a "v4" report and leaves the presence and the start     *)
(* time of every domain other than the report's as they were; remediation  *)
(* is invoked for a report exactly when its flag is "0" and its own        *)
(* domain's entry is 300 or more seconds before the current reading.       *)
(***************************************************************************)
C19_PerDomainIndependence ==
    [][/\ (connectivity_0_start_time' /= connectivity_0_start_time) =>
            /\ HandlingPrimary
            /\ data' = data
            /\ \A d \in (DOMAIN connectivity_0_start_time)
                          \cup (DOMAIN connectivity_0_start_time') :
                  (d /= msg[1]) =>
                      /\ d \in DOMAIN connectivity_0_start_time
                      /\ d \in DOMAIN connectivity_0_start_time'
                      /\ connectivity_0_start_time'[d] = connectivity_0_start_time[d]
       /\ (TrackerStep /\ HandlingPrimary) =>
            (RemediationStep <=>
                /\ msg[4] = Zero
                /\ msg[1] \in DOMAIN connectivity_0_start_time
                /\ now - connectivity_0_start_time[msg[1]] >= 300)]_vars

\* domains a and b fail at once, a since 0 and b since 1; at 301 remediation is invoked
\* for b on b's own schedule, and a's entry is as it was
C19_Witness ==
    /\ lpc = "replace"
    /\ msg[1] = <<"b">>
    /\ <<"a">> \in DOMAIN connectivity_0_start_time
    /\ <<"b">> \in DOMAIN connectivity_0_start_time
    /\ connectivity_0_start_time[<<"a">>] = 0
    /\ connectivity_0_start_time[<<"b">>] = 1
    /\ now = 301
====
